---- MODULE Spec2Model ----
(***************************************************************************)
(* Model of the support agent's core (apps/agent/src-tauri/src):           *)
(*   - first-run device registration (lib.rs `run`,                        *)
(*     device_registration.rs `register_device_with_server`);              *)
(*   - the size-rotating file logger and its log levels (logger.rs);       *)
(*   - the periodic test-ticket sender (test_ticket_sender.rs).            *)
(* The settings store (device_manager) is not part of the sources at hand; *)
(* its operations are modelled from the design document.                   *)
(***************************************************************************)
EXTENDS Integers, Sequences, FiniteSets, TLC

(***************************************************************************)
(* Bounds of the model.                                                    *)
(***************************************************************************)
MaxLaunches == 3
NumInvocations == 2
TwiceLaunches == 1
NumLogThreads == 2
MaxLogCalls == 2
MaxRestarts == 1
MaxFaults == 1
MaxRounds == 2

(***************************************************************************)
(* Values.                                                                 *)
(***************************************************************************)
None == "<none>"
Absent == "<absent>"

Tasks == 1..NumInvocations

\* Identifiers a server may put in a response (the empty string included).
DeviceIds == {"", "D1", "D2"}
Guids == {"", "G1"}
Statuses == {200, 299, 300, 500}

\* A response body: unreadable (text() fails), or a text that is JSON or not;
\* a JSON body may lack the fields RegistrationData requires.
NoBody == [readable |-> FALSE, json |-> FALSE, raw |-> None,
           device_id |-> Absent, guid |-> Absent]
TextBody(s) == [readable |-> TRUE, json |-> FALSE, raw |-> s,
                device_id |-> Absent, guid |-> Absent]
JsonBody(d, g) == [readable |-> TRUE, json |-> TRUE, raw |-> "{json}",
                   device_id |-> d, guid |-> g]
Bodies == {NoBody, TextBody("boom")}
            \cup {JsonBody(d, g) : d \in DeviceIds \cup {Absent}, g \in Guids}
            \cup {JsonBody("D1", Absent)}

NoResponse == [kind |-> "none", status |-> 0, body |-> NoBody]
NetworkFailure == [kind |-> "network", status |-> 0, body |-> NoBody]
Responses == {NetworkFailure}
               \cup {[kind |-> "http", status |-> s, body |-> b] :
                       s \in Statuses, b \in Bodies}

NoRequest == [guid |-> None, site_id |-> None, hostname |-> None,
              version |-> None, platform |-> None, serial |-> None,
              mac |-> None]
NoData == [device_id |-> None, guid |-> None]
NoProbes == [guid |-> None, serial |-> None, mac |-> None]

VARIABLES
    settings,       \* the persisted settings document
    launches,       \* process starts so far
    running,        \* a process is running
    spawned,        \* orchestrator tasks spawned by the running process
    pc,             \* position of each orchestrator task
    hostname,       \* hostname of the task's working snapshot
    request,        \* RegistrationRequest the task has sent
    response,       \* what the server answered to the task
    result,         \* RegistrationResponse.data parsed by the task
    outcome,        \* what register_device_with_server returned to the task
    console,        \* lines the task printed
    httpCalls,      \* registration requests sent by the running process
    updateCalls,    \* calls of update_from_registration by the task
    startSettings,  \* the settings document when the running process started
    persistFailed,  \* the task's update_from_registration call failed
    prevPersistFailed, \* the previous process ended after such a failure
    accepted,       \* identifiers of the last registration that returned Ok
    probes          \* what the machine-id, serial and MAC probes gave the task

regVars == <<settings, launches, running, spawned, pc, hostname, request,
             response, result, outcome, console, httpCalls, updateCalls,
             startSettings, persistFailed,
                   prevPersistFailed, accepted, probes>>

\* State of the logger (logger.rs).
VARIABLES
    dir,        \* the log directory: slot -> file
    handle,     \* the appender's open file: where it is linked in dir
    once,       \* INIT: "incomplete", "running" or "complete"
    inits,      \* runs of the initialization body in this process
    restarts,   \* process restarts so far
    calls,      \* log_message calls started so far
    lpc,        \* position of each thread inside log_message
    idx,        \* loop variable i of the rotation loop
    cur,        \* the line the thread's call is writing
    seen,       \* fs::metadata of the base file, as the thread's call saw it
    prior,      \* lines of the base file when the call checked its size
    renames,    \* fs::rename calls the thread's call has issued
    faulted,    \* a rename of an existing file failed during the call
    faults,     \* renames of existing files that have failed so far
    appended,   \* the call's line reached a file
    returned,   \* what the thread's last call returned
    lastReturned, \* the thread whose call returned last, 0 once another started
    lost        \* the files renames have replaced, which are on disk no more

logVars == <<dir, handle, once, inits, restarts, calls, lpc, idx, cur, seen,
             prior, renames, faulted, faults, appended, returned, lastReturned,
             lost>>

\* State of a log_to_file call's level conversion (logger.rs).
VARIABLES
    levelArg,   \* the level string the caller passed
    level,      \* the LogLevel made of it, "none" before the conversion
    levelText   \* the level as the line shows it, "none" before formatting

lvlVars == <<levelArg, level, levelText>>

\* State of the test-ticket sender (test_ticket_sender.rs).
VARIABLES
    senderFlag,     \* the AtomicBool `running` the sender was started with
    tpc,            \* position of the sender task
    rounds,         \* iterations of the sender's loop started so far
    snapshot,       \* the settings send_test_ticket read
    endpointCalls,  \* calls of get_api_endpoint("/v1.0/ticket/create")
    posts,          \* the ticket-creation requests sent: their headers
    ticketLog       \* the lines the sender passed to log_to_file

tktVars == <<senderFlag, tpc, rounds, snapshot, endpointCalls, posts,
             ticketLog>>

(***************************************************************************)
(* Settings store (device_manager), from the design document.              *)
(***************************************************************************)
is_device_registered(s) ==
    s.readable /\ s.device_id # None /\ s.device_id # ""

complete_settings_ok(s) == s.readable

get_api_endpoint_ok(s) == s.readable /\ s.api_base # None

get_settings_ok(s) == s.readable

update_from_registration(s, device_id, guid) ==
    [s EXCEPT !.device_id = device_id, !.guid = guid]

(***************************************************************************)
(* Registration client, device_registration.rs.                            *)
(***************************************************************************)
is_success(status) == status >= 200 /\ status < 300

canonical_reason(status) ==
    CASE status = 200 -> "OK"
      [] status = 300 -> "Multiple Choices"
      [] status = 500 -> "Internal Server Error"
      [] OTHER -> None

\* Variant: the status as its bare number.
NumericStatus(status) == ToString(status)

\* Display of the response status, as format!("{}", status) renders it.
StatusDisplay(status) ==
    ToString(status) \o " " \o
        (IF canonical_reason(status) = None
            THEN "<unknown status code>"
            ELSE canonical_reason(status))

\* serde_json::from_str::<RegistrationResponse>: both fields must be strings.
ParseOk(body) ==
    /\ body.json
    /\ body.device_id # Absent
    /\ body.guid # Absent

RegistrationFailed(status, error_text) ==
    "Registration failed (" \o StatusDisplay(status) \o "): " \o error_text

\* Variant: the two identifiers passed in the wrong order.
UpdateArgsSwapped(data) == <<data.guid, data.device_id>>

\* The arguments passed to update_from_registration: device_id, then guid.
UpdateArgs(data) == <<data.device_id, data.guid>>

\* Variant: the error of update_from_registration dropped.
register_result_ignoring_error(persisted) == "Ok"

\* The `?` after update_from_registration(..).await, then Ok(result).
register_result(persisted) == IF persisted THEN "Ok" ELSE "Err"

\* Variant: the hostname goes out as the snapshot has it.
RequestWithoutDefault(s, h, guid, serial, mac) ==
    [guid |-> guid, site_id |-> s.site_id,
     hostname |-> h,
     version |-> "0.1.0", platform |-> "linux",
     serial |-> serial, mac |-> mac]

\* let request = RegistrationRequest { .. };
RegistrationRequest(s, h, guid, serial, mac) ==
    [guid |-> guid, site_id |-> s.site_id,
     hostname |-> IF h = None THEN "unknown" ELSE h,
     version |-> "0.1.0", platform |-> "linux",
     serial |-> serial, mac |-> mac]

(***************************************************************************)
(* Startup orchestrator, lib.rs `run` (the task spawned in setup).         *)
(***************************************************************************)
\* Variant: the Err arm starting the orchestrator over within the process.
ReportFailureAndRetry(t, e) ==
    /\ outcome' = [outcome EXCEPT ![t] = "Err"]
    /\ console' = [console EXCEPT ![t] =
                     @ \o <<"Failed to register device: " \o e,
                            "Will retry on next launch">>]
    /\ pc' = [pc EXCEPT ![t] = "check"]

\* Variant: the error ends the task unreported.
DropFailure(t, e) ==
    /\ outcome' = [outcome EXCEPT ![t] = "Err"]
    /\ console' = console
    /\ pc' = [pc EXCEPT ![t] = "done"]

\* The Err arm of the match on register_device_with_server().
ReportFailure(t, e) ==
    /\ outcome' = [outcome EXCEPT ![t] = "Err"]
    /\ console' = [console EXCEPT ![t] =
                     @ \o <<"Failed to register device: " \o e,
                            "Will retry on next launch">>]
    /\ pc' = [pc EXCEPT ![t] = "done"]

\* A process start: setup spawns n orchestrator tasks.
Launch(n, limit) ==
    /\ ~running
    /\ launches < limit
    /\ running' = TRUE
    /\ launches' = launches + 1
    /\ spawned' = 1..n
    /\ pc' = [t \in Tasks |-> IF t \in 1..n THEN "check" ELSE "idle"]
    /\ hostname' = [t \in Tasks |-> None]
    /\ request' = [t \in Tasks |-> NoRequest]
    /\ response' = [t \in Tasks |-> NoResponse]
    /\ result' = [t \in Tasks |-> NoData]
    /\ outcome' = [t \in Tasks |-> "none"]
    /\ console' = [t \in Tasks |-> <<>>]
    /\ httpCalls' = 0
    /\ updateCalls' = [t \in Tasks |-> 0]
    /\ startSettings' = settings
    /\ persistFailed' = [t \in Tasks |-> FALSE]
    /\ prevPersistFailed' = (\E t \in Tasks : persistFailed[t])
    /\ probes' = [t \in Tasks |-> NoProbes]
    /\ UNCHANGED <<settings, accepted>>
    /\ UNCHANGED <<logVars, lvlVars, tktVars>>

\* The process ends; tasks in flight are abandoned.
Exit ==
    /\ running
    /\ running' = FALSE
    /\ pc' = [t \in Tasks |-> IF pc[t] = "done" THEN "done" ELSE "idle"]
    /\ UNCHANGED <<settings, launches, spawned, hostname, request, response,
                   result, outcome, console, httpCalls, updateCalls,
                   startSettings, persistFailed,
                   prevPersistFailed, accepted>>
    /\ UNCHANGED <<probes, logVars, lvlVars, tktVars>>

\* Variant: no gate, every start registers.
always_registers(s) == TRUE

\* The gate `if !is_device_registered().await`.
needs_registration(s) == ~is_device_registered(s)

\* if !is_device_registered().await { ... } else { ... }
Check(t) ==
    /\ running /\ pc[t] = "check"
    /\ IF ~needs_registration(settings)
          THEN /\ console' = [console EXCEPT ![t] =
                                @ \o <<"Device already registered">>]
               /\ pc' = [pc EXCEPT ![t] = "done"]
          ELSE /\ console' = [console EXCEPT ![t] =
                                @ \o <<"First launch detected, registering device...">>]
               /\ pc' = [pc EXCEPT ![t] = "complete"]
    /\ UNCHANGED <<settings, launches, running, spawned, hostname, request,
                   response, result, outcome, httpCalls, updateCalls,
                   startSettings, persistFailed,
                   prevPersistFailed, accepted>>
    /\ UNCHANGED <<probes, logVars, lvlVars, tktVars>>

\* let mut settings = complete_settings().await?;
Complete(t) ==
    /\ running /\ pc[t] = "complete"
    /\ IF complete_settings_ok(settings)
          THEN /\ \E h \in {None, "host-1"} :
                     hostname' = [hostname EXCEPT ![t] = h]
               /\ pc' = [pc EXCEPT ![t] = "endpoint"]
               /\ UNCHANGED <<outcome, console>>
          ELSE /\ ReportFailure(t, "ConfigMissing")
               /\ UNCHANGED hostname
    /\ UNCHANGED <<settings, launches, running, spawned, request, response,
                   result, httpCalls, updateCalls, startSettings, persistFailed,
                   prevPersistFailed, accepted>>
    /\ UNCHANGED <<probes, logVars, lvlVars, tktVars>>

\* let api_url = get_api_endpoint("/v1.0/register").await?;
Endpoint(t) ==
    /\ running /\ pc[t] = "endpoint"
    /\ IF get_api_endpoint_ok(settings)
          THEN /\ pc' = [pc EXCEPT ![t] = "send"]
               /\ UNCHANGED <<outcome, console>>
          ELSE ReportFailure(t, "ConfigMissing")
    /\ UNCHANGED <<settings, launches, running, spawned, hostname, request,
                   response, result, httpCalls, updateCalls, startSettings, persistFailed,
                   prevPersistFailed,
                   accepted>>
    /\ UNCHANGED <<probes, logVars, lvlVars, tktVars>>

\* The probes, the request and client.post(..).json(&request).send().
Send(t) ==
    /\ running /\ pc[t] = "send"
    /\ \E guid \in {None, "M1"}, serial \in {None, "SN1"},
          mac \in {None, "aa:bb"} :
          /\ probes' = [probes EXCEPT ![t] =
                          [guid |-> guid, serial |-> serial, mac |-> mac]]
          /\ request' = [request EXCEPT ![t] =
                           RegistrationRequest(settings, hostname[t],
                                               guid, serial, mac)]
    /\ httpCalls' = httpCalls + 1
    /\ pc' = [pc EXCEPT ![t] = "await"]
    /\ UNCHANGED <<settings, launches, running, spawned, hostname, response,
                   result, outcome, console, updateCalls, startSettings, persistFailed,
                   prevPersistFailed,
                   accepted>>
    /\ UNCHANGED <<logVars, lvlVars, tktVars>>

\* .send().await? and the handling of the response up to the parse.
Receive(t) ==
    /\ running /\ pc[t] = "await"
    /\ \E r \in Responses :
          /\ response' = [response EXCEPT ![t] = r]
          /\ IF r.kind = "network"
                THEN /\ ReportFailure(t, "NetworkFailure")
                     /\ UNCHANGED result
                ELSE IF is_success(r.status)
                THEN IF ~r.body.readable
                        THEN /\ ReportFailure(t, "NetworkFailure")
                             /\ UNCHANGED result
                        ELSE IF ~ParseOk(r.body)
                        THEN /\ ReportFailure(t, "MalformedResponse")
                             /\ UNCHANGED result
                        ELSE /\ result' = [result EXCEPT ![t] =
                                             [device_id |-> r.body.device_id,
                                              guid |-> r.body.guid]]
                             /\ pc' = [pc EXCEPT ![t] = "update"]
                             /\ UNCHANGED <<outcome, console>>
                ELSE /\ ReportFailure(t,
                          RegistrationFailed(r.status,
                              IF r.body.readable THEN r.body.raw
                                                 ELSE "Unknown error"))
                     /\ UNCHANGED result
    /\ UNCHANGED <<settings, launches, running, spawned, hostname, request,
                   httpCalls, updateCalls, startSettings, persistFailed,
                   prevPersistFailed, accepted>>
    /\ UNCHANGED <<probes, logVars, lvlVars, tktVars>>

\* update_from_registration(&mut settings, device_id, guid).await?; Ok(result)
\* and the Ok arm of the orchestrator's match.
Update(t) ==
    /\ running /\ pc[t] = "update"
    /\ updateCalls' = [updateCalls EXCEPT ![t] = @ + 1]
    /\ \E persisted \in BOOLEAN :
          /\ settings' = IF persisted
                            THEN update_from_registration(
                                     settings, UpdateArgs(result[t])[1],
                                     UpdateArgs(result[t])[2])
                            ELSE settings
          /\ persistFailed' = [persistFailed EXCEPT ![t] = ~persisted]
          /\ IF register_result(persisted) = "Ok"
                THEN /\ accepted' = result[t]
                     /\ outcome' = [outcome EXCEPT ![t] = "Ok"]
                     /\ console' = [console EXCEPT ![t] =
                                      @ \o <<"Device registered successfully",
                                             "Device ID: " \o result[t].device_id,
                                             "GUID: " \o result[t].guid>>]
                     /\ pc' = [pc EXCEPT ![t] = "done"]
                ELSE /\ ReportFailure(t, "PersistFailure")
                     /\ UNCHANGED accepted
    /\ UNCHANGED <<launches, running, spawned, hostname, request, response,
                   result, httpCalls, startSettings, prevPersistFailed>>
    /\ UNCHANGED <<probes, logVars, lvlVars, tktVars>>

(***************************************************************************)
(* Rotating file logger, logger.rs.                                        *)
(***************************************************************************)
MAX_LOG_SIZE_BYTES == 10 * 1024 * 1024
MAX_GENERATIONS == 5

LogThreads == 1..NumLogThreads
\* File names of the directory.  0: runtime_<V>.log, i: runtime_<V>.log.i; the
\* name after the last generation is one the rotation never writes.
Slots == 0..(MAX_GENERATIONS + 1)

\* Length in bytes of a logged line.  File sizes at and beyond the limit come
\* from the base file earlier processes left, grown by the lines logged.
LineSizes == {1}

NoFile == [exists |-> FALSE, lines |-> <<>>]
NoLine == [n |-> 0, by |-> 0, proc |-> 0, len |-> 0]
NoMeta == [found |-> FALSE, len |-> 0]
ClosedHandle == [open |-> FALSE, linked |-> FALSE, at |-> 0]

\* A file left by earlier processes: one line of the given length.
OldFile(i, len) ==
    [exists |-> TRUE,
     lines |-> <<[n |-> 0 - i - 1, by |-> 0, proc |-> 0 - 1, len |-> len]>>]

RECURSIVE SumLen(_)
SumLen(ls) == IF ls = <<>> THEN 0 ELSE Head(ls).len + SumLen(Tail(ls))

\* fs::metadata(&log_path): Err for a missing file, else its length.
metadata(d) ==
    IF d[0].exists THEN [found |-> TRUE, len |-> SumLen(d[0].lines)]
                   ELSE NoMeta

\* Variant: the size test with >= in place of >.
ExceedsOrEquals(m) == m.found /\ m.len >= MAX_LOG_SIZE_BYTES

\* if let Ok(metadata) = .. { if metadata.len() > MAX_LOG_SIZE_BYTES {
needs_rotation(m) == m.found /\ m.len > MAX_LOG_SIZE_BYTES

\* Variant: the shift loop over 1..=5.
first_shift_inclusive == MAX_GENERATIONS

\* for i in (1..5).rev(): the first generation shifted is .4
first_shift == MAX_GENERATIONS - 1

\* The file a rename replaces: the destination an existing source overwrites.
replaced(d, from, to, ok) ==
    IF d[from].exists /\ ok /\ d[to].exists THEN {d[to]} ELSE {}

\* Variant: the source stays where it was.
rename_keeping_source(d, from, to, ok) ==
    IF d[from].exists /\ ok
       THEN [d EXCEPT ![to] = d[from]]
       ELSE d

\* fs::rename(from, to) on the directory; a missing source is an error.
rename(d, from, to, ok) ==
    IF d[from].exists /\ ok
       THEN [d EXCEPT ![to] = d[from], ![from] = NoFile]
       ELSE d

\* The open file follows its directory entry; an overwritten one is unlinked.
rename_handle(h, d, from, to, ok) ==
    IF ~(d[from].exists /\ ok) \/ ~h.open \/ ~h.linked THEN h
    ELSE IF h.at = from THEN [h EXCEPT !.at = to]
    ELSE IF h.at = to THEN [h EXCEPT !.linked = FALSE]
    ELSE h

\* OpenOptions::new().append(true).create(true).open(runtime_<V>.log)
create_writer(d) ==
    IF d[0].exists THEN d ELSE [d EXCEPT ![0] = [exists |-> TRUE, lines |-> <<>>]]

\* Variant: the line is written twice.
append_twice(d, h, line) ==
    IF h.open /\ h.linked
       THEN [d EXCEPT ![h.at].lines = Append(Append(@, line), line)]
       ELSE d

\* One write of the whole line through the open file.
append(d, h, line) ==
    IF h.open /\ h.linked
       THEN [d EXCEPT ![h.at].lines = Append(@, line)]
       ELSE d

\* The write of a line succeeds or (a full disk) fails.
WriteOutcomes == IF faults < MaxFaults THEN BOOLEAN ELSE {TRUE}

\* A rename of an existing file succeeds or (permissions, a lock) fails.
RenameOutcomes(from) ==
    IF dir[from].exists /\ faults < MaxFaults THEN BOOLEAN ELSE {TRUE}

\* Variant: a thread arriving while the body runs goes on.
never_waits(o) == FALSE

\* INIT.call_once: a thread arriving while another runs the body waits.
call_once_waits(o) == o = "running"

\* log_message(level, message) is entered by a thread, which reaches
\* INIT.call_once in init_logger(): the first thread runs the body, a thread
\* arriving while the body runs waits, later threads pass.
LogCall(t) ==
    /\ lpc[t] = "idle"
    /\ calls < MaxLogCalls
    /\ ~call_once_waits(once)
    /\ calls' = calls + 1
    /\ \E len \in LineSizes :
          cur' = [cur EXCEPT ![t] = [n |-> calls + 1, by |-> t,
                                     proc |-> restarts, len |-> len]]
    /\ IF once = "incomplete"
          THEN /\ once' = "running"
               /\ inits' = inits + 1
               /\ lpc' = [lpc EXCEPT ![t] = "initbody"]
          ELSE /\ lpc' = [lpc EXCEPT ![t] = "check"]
               /\ UNCHANGED <<once, inits>>
    /\ seen' = [seen EXCEPT ![t] = NoMeta]
    /\ prior' = [prior EXCEPT ![t] = <<>>]
    /\ renames' = [renames EXCEPT ![t] = 0]
    /\ faulted' = [faulted EXCEPT ![t] = FALSE]
    /\ appended' = [appended EXCEPT ![t] = FALSE]
    /\ returned' = [returned EXCEPT ![t] = "none"]
    /\ lastReturned' = 0
    /\ UNCHANGED <<faults, dir, handle, restarts, idx, lost>>
    /\ UNCHANGED <<regVars, lvlVars, tktVars>>

\* The body of call_once: the appender opens (creates) the base file.
InitBody(t) ==
    /\ lpc[t] = "initbody"
    /\ dir' = create_writer(dir)
    /\ handle' = [open |-> TRUE, linked |-> TRUE, at |-> 0]
    /\ once' = "complete"
    /\ lpc' = [lpc EXCEPT ![t] = "check"]
    /\ UNCHANGED <<faults, inits, restarts, calls, idx, cur, seen, prior, renames,
                   faulted, appended, returned, lastReturned, lost>>
    /\ UNCHANGED <<regVars, lvlVars, tktVars>>

\* check_and_rotate_log(): the size test.
CheckSize(t) ==
    /\ lpc[t] = "check"
    /\ seen' = [seen EXCEPT ![t] = metadata(dir)]
    /\ prior' = [prior EXCEPT ![t] = dir[0].lines]
    /\ IF needs_rotation(metadata(dir))
          THEN /\ lpc' = [lpc EXCEPT ![t] = "shift"]
               /\ idx' = [idx EXCEPT ![t] = first_shift]
          ELSE /\ lpc' = [lpc EXCEPT ![t] = "write"]
               /\ UNCHANGED idx
    /\ UNCHANGED <<faults, dir, handle, once, inits, restarts, calls, cur, renames,
                   faulted, appended, returned, lastReturned, lost>>
    /\ UNCHANGED <<regVars, lvlVars, tktVars>>

\* for i in (1..5).rev() { let _ = fs::rename(log.i, log.(i+1)); }
Shift(t) ==
    /\ lpc[t] = "shift"
    /\ \E ok \in RenameOutcomes(idx[t]) :
          /\ dir' = rename(dir, idx[t], idx[t] + 1, ok)
          /\ handle' = rename_handle(handle, dir, idx[t], idx[t] + 1, ok)
          /\ lost' = lost \cup replaced(dir, idx[t], idx[t] + 1, ok)
          /\ faulted' = [faulted EXCEPT ![t] = @ \/ ~ok]
          /\ faults' = IF ok THEN faults ELSE faults + 1
    /\ renames' = [renames EXCEPT ![t] = @ + 1]
    /\ IF idx[t] > 1
          THEN /\ idx' = [idx EXCEPT ![t] = @ - 1]
               /\ UNCHANGED lpc
          ELSE /\ lpc' = [lpc EXCEPT ![t] = "movebase"]
               /\ UNCHANGED idx
    /\ UNCHANGED <<once, inits, restarts, calls, cur, seen, prior, appended,
                   returned, lastReturned>>
    /\ UNCHANGED <<regVars, lvlVars, tktVars>>

\* let _ = fs::rename(&log_path, rotated);
MoveBase(t) ==
    /\ lpc[t] = "movebase"
    /\ \E ok \in RenameOutcomes(0) :
          /\ dir' = rename(dir, 0, 1, ok)
          /\ handle' = rename_handle(handle, dir, 0, 1, ok)
          /\ lost' = lost \cup replaced(dir, 0, 1, ok)
          /\ faulted' = [faulted EXCEPT ![t] = @ \/ ~ok]
          /\ faults' = IF ok THEN faults ELSE faults + 1
    /\ renames' = [renames EXCEPT ![t] = @ + 1]
    /\ lpc' = [lpc EXCEPT ![t] = "write"]
    /\ UNCHANGED <<once, inits, restarts, calls, idx, cur, seen, prior,
                   appended, returned, lastReturned>>
    /\ UNCHANGED <<regVars, lvlVars, tktVars>>

\* info!/warn!/error!: the subscriber writes the line through the appender
\* and drops a write error; log_message returns Ok(()).
WriteLine(t) ==
    /\ lpc[t] = "write"
    /\ \E ok \in WriteOutcomes :
          /\ dir' = IF ok THEN append(dir, handle, cur[t]) ELSE dir
          /\ appended' = [appended EXCEPT ![t] =
                            ok /\ handle.open /\ handle.linked]
          /\ faults' = IF ok THEN faults ELSE faults + 1
    /\ returned' = [returned EXCEPT ![t] = "Ok"]
    /\ lastReturned' = t
    /\ lpc' = [lpc EXCEPT ![t] = "idle"]
    /\ UNCHANGED <<handle, once, inits, restarts, calls, idx, cur, seen,
                   prior, renames, faulted, lost>>
    /\ UNCHANGED <<regVars, lvlVars, tktVars>>

\* The process ends and the agent is started again.  Only a process that has
\* logged is followed: the end of one that never logged leaves the logger's
\* state as it was.
Restart ==
    /\ restarts < MaxRestarts
    /\ \A t \in LogThreads : lpc[t] = "idle"
    /\ once = "complete"
    /\ restarts' = restarts + 1
    /\ once' = "incomplete"
    /\ inits' = 0
    /\ handle' = ClosedHandle
    /\ lastReturned' = 0
    /\ UNCHANGED <<faults, dir, calls, lpc, idx, cur, seen, prior, renames, faulted,
                   appended, returned, lost>>
    /\ UNCHANGED <<regVars, lvlVars, tktVars>>

(***************************************************************************)
(* Log levels, logger.rs.  A string is a sequence of characters, each       *)
(* written as a string; "sz" is the sharp s.                               *)
(***************************************************************************)
Lowers == <<"a", "b", "d", "e", "f", "g", "i", "n", "o", "r", "s", "u", "w">>
Uppers == <<"A", "B", "D", "E", "F", "G", "I", "N", "O", "R", "S", "U", "W">>

\* char::to_uppercase: a cased letter gives its capital, the sharp s gives
\* two letters, any other character gives itself.
char_to_uppercase(c) ==
    IF \E i \in DOMAIN Lowers : Lowers[i] = c
       THEN <<Uppers[CHOOSE i \in DOMAIN Lowers : Lowers[i] = c]>>
       ELSE IF c = "sz" THEN <<"S", "S">> ELSE <<c>>

\* Variant: the string is matched as it came.
keep_case(s) == s

\* String::to_uppercase
RECURSIVE to_uppercase(_)
to_uppercase(s) ==
    IF s = <<>> THEN <<>>
    ELSE char_to_uppercase(Head(s)) \o to_uppercase(Tail(s))

\* impl From<String> for LogLevel
LogLevel_from(s) ==
    LET u == to_uppercase(s)
    IN  IF u = <<"W", "A", "R", "N">> THEN "Warn"
        ELSE IF u = <<"E", "R", "R", "O", "R">> THEN "Error"
        ELSE "Info"

\* LogLevel::as_str
as_str(l) ==
    CASE l = "Info" -> "INFO"
      [] l = "Warn" -> "WARN"
      [] l = "Error" -> "ERROR"

\* Every way of capitalising letters of a word.
Casings(word) ==
    {[i \in DOMAIN word |-> IF i \in caps THEN Head(char_to_uppercase(word[i]))
                                           ELSE word[i]] :
        caps \in SUBSET DOMAIN word}

\* The level strings callers pass: the casings of the two names, and others.
LevelStrings ==
    Casings(<<"w", "a", "r", "n">>) \cup Casings(<<"e", "r", "r", "o", "r">>)
    \cup Casings(<<"i", "n", "f", "o">>)
    \cup {<<>>, <<"d", "e", "b", "u", "g">>, <<"D", "E", "B", "U", "G">>,
          <<"w", "a", "r", "n", "i", "n", "g">>, <<"W", "A", "R", "N", " ">>,
          <<" ", "w", "a", "r", "n">>, <<"w", "a", "r">>, <<"e", "r", "r">>,
          <<"E", "R", "R", "O", "R", "S">>, <<"e", "r", "o", "r">>,
          <<"sz">>, <<"S", "S">>, <<"1">>}

\* log_to_file(level, message): let log_level = LogLevel::from(level);
ConvertLevel ==
    /\ level = "none"
    /\ level' = LogLevel_from(levelArg)
    /\ UNCHANGED <<levelArg, levelText>>
    /\ UNCHANGED <<regVars, logVars, tktVars>>

\* log_message(level, message): format!("[{}][{}] {}", .., level.as_str(), ..)
FormatLevel ==
    /\ level # "none"
    /\ levelText = "none"
    /\ levelText' = as_str(level)
    /\ UNCHANGED <<levelArg, level>>
    /\ UNCHANGED <<regVars, logVars, tktVars>>

LevelIdle ==
    /\ levelArg = <<>>
    /\ level = "none"
    /\ levelText = "none"

(***************************************************************************)
(* Test-ticket sender, test_ticket_sender.rs.                              *)
(***************************************************************************)
\* What the ticket endpoint answers: no answer (a transport error), a 2xx
\* with a TicketResponse, a 2xx with another body, a rejection.
TicketResponses == {"network", "created", "malformed", "rejected"}

NoSnapshot == [device_id |-> None, site_id |-> None]

\* Variant: the ticket is sent whatever the settings hold.
never_skips(s) == FALSE

\* if settings.device_id.is_none()
device_not_registered(s) == s.device_id = None

\* The Err arm of the match on send_test_ticket(): the loop goes on.
LogSendFailure(e) ==
    /\ ticketLog' = Append(ticketLog, "Failed to send test ticket: " \o e)
    /\ tpc' = "loop"

\* Variant: the task takes the flag for set whatever it holds.
always_running(flag) == TRUE

\* running.load(Ordering::Relaxed)
running_load(flag) == flag

StoppedLine == "Test ticket sender background task stopped"

\* start_test_ticket_sender: the spawned task logs that it starts.
SenderStart ==
    /\ tpc = "start"
    /\ ticketLog' = Append(ticketLog, "Starting test ticket sender background task")
    /\ tpc' = "first_sleep"
    /\ UNCHANGED <<senderFlag, rounds, snapshot, endpointCalls, posts>>
    /\ UNCHANGED <<regVars, logVars, lvlVars>>

\* tokio::time::sleep(Duration::from_secs(30)).await
FirstSleep ==
    /\ tpc = "first_sleep"
    /\ tpc' = "loop"
    /\ UNCHANGED <<senderFlag, rounds, snapshot, endpointCalls, posts, ticketLog>>
    /\ UNCHANGED <<regVars, logVars, lvlVars>>

\* while running.load(Ordering::Relaxed) { pick the interval, log it; after
\* the loop the task logs that it stopped.
LoopCheck ==
    /\ tpc = "loop"
    /\ IF running_load(senderFlag)
          THEN /\ rounds < MaxRounds
               /\ rounds' = rounds + 1
               /\ ticketLog' = Append(ticketLog, "Next test ticket will be sent")
               /\ tpc' = "sleep"
          ELSE /\ ticketLog' = Append(ticketLog, StoppedLine)
               /\ tpc' = "stopped"
               /\ UNCHANGED rounds
    /\ UNCHANGED <<senderFlag, snapshot, endpointCalls, posts>>
    /\ UNCHANGED <<regVars, logVars, lvlVars>>

\* tokio::time::sleep(wait_duration).await; if !running.load(..) { break; }
\* log_to_file("INFO", "Sending test ticket...")
WakeUp ==
    /\ tpc = "sleep"
    /\ IF running_load(senderFlag)
          THEN /\ ticketLog' = Append(ticketLog, "Sending test ticket...")
               /\ tpc' = "settings"
          ELSE /\ ticketLog' = Append(ticketLog, StoppedLine)
               /\ tpc' = "stopped"
    /\ UNCHANGED <<senderFlag, rounds, snapshot, endpointCalls, posts>>
    /\ UNCHANGED <<regVars, logVars, lvlVars>>

\* send_test_ticket: let settings = get_settings().await?; and the check of
\* the device id.
GetSettings ==
    /\ tpc = "settings"
    /\ IF ~get_settings_ok(settings)
          THEN /\ LogSendFailure("ConfigMissing")
               /\ UNCHANGED snapshot
          ELSE IF device_not_registered(settings)
          THEN /\ LogSendFailure("Device not registered, skipping test ticket")
               /\ UNCHANGED snapshot
          ELSE /\ snapshot' = [device_id |-> settings.device_id,
                               site_id |-> settings.site_id]
               /\ tpc' = "endpoint"
               /\ UNCHANGED ticketLog
    /\ UNCHANGED <<senderFlag, rounds, endpointCalls, posts>>
    /\ UNCHANGED <<regVars, logVars, lvlVars>>

\* let api_url = get_api_endpoint("/v1.0/ticket/create").await?; and the log
\* of the URL.
ResolveEndpoint ==
    /\ tpc = "endpoint"
    /\ endpointCalls' = endpointCalls + 1
    /\ IF get_api_endpoint_ok(settings)
          THEN /\ ticketLog' = Append(ticketLog, "Sending test ticket to: url")
               /\ tpc' = "post"
          ELSE LogSendFailure("ConfigMissing")
    /\ UNCHANGED <<senderFlag, rounds, snapshot, posts>>
    /\ UNCHANGED <<regVars, logVars, lvlVars>>

\* client.post(&api_url).header("X-Device-ID", ..).header("X-Site-ID", ..)
\*     .multipart(form).send()
Post ==
    /\ tpc = "post"
    /\ posts' = Append(posts, snapshot)
    /\ tpc' = "await"
    /\ UNCHANGED <<senderFlag, rounds, snapshot, endpointCalls, ticketLog>>
    /\ UNCHANGED <<regVars, logVars, lvlVars>>

\* .await? and the handling of the response, then the arm of the loop's match.
TicketAnswer ==
    /\ tpc = "await"
    /\ \E r \in TicketResponses :
          CASE r = "created" ->
                 /\ ticketLog' = ticketLog \o
                        <<"Test ticket created successfully, Ticket ID: T1",
                          "Test ticket sent successfully, Ticket ID: T1">>
                 /\ tpc' = "loop"
            [] r = "network" -> LogSendFailure("NetworkFailure")
            [] r = "malformed" -> LogSendFailure("MalformedResponse")
            [] r = "rejected" ->
                 LogSendFailure("Test ticket creation failed (" \o
                                StatusDisplay(500) \o "): boom")
    /\ UNCHANGED <<senderFlag, rounds, snapshot, endpointCalls, posts>>
    /\ UNCHANGED <<regVars, logVars, lvlVars>>

\* The owner of the flag clears it.
StopSender ==
    /\ senderFlag
    /\ senderFlag' = FALSE
    /\ UNCHANGED <<tpc, rounds, snapshot, endpointCalls, posts, ticketLog>>
    /\ UNCHANGED <<regVars, logVars, lvlVars>>

SenderIdle ==
    /\ senderFlag = TRUE
    /\ tpc = "start"
    /\ rounds = 0
    /\ snapshot = NoSnapshot
    /\ endpointCalls = 0
    /\ posts = <<>>
    /\ ticketLog = <<>>

vars == <<regVars, logVars, lvlVars, tktVars>>

RegIdle ==
    /\ settings = [readable |-> TRUE, site_id |-> "S1",
                   api_base |-> "https://x", device_id |-> None,
                   guid |-> None]
    /\ launches = 0
    /\ running = FALSE
    /\ spawned = {}
    /\ pc = [t \in Tasks |-> "idle"]
    /\ hostname = [t \in Tasks |-> None]
    /\ request = [t \in Tasks |-> NoRequest]
    /\ response = [t \in Tasks |-> NoResponse]
    /\ result = [t \in Tasks |-> NoData]
    /\ outcome = [t \in Tasks |-> "none"]
    /\ console = [t \in Tasks |-> <<>>]
    /\ httpCalls = 0
    /\ updateCalls = [t \in Tasks |-> 0]
    /\ startSettings = settings
    /\ persistFailed = [t \in Tasks |-> FALSE]
    /\ prevPersistFailed = FALSE
    /\ accepted = NoData
    /\ probes = [t \in Tasks |-> NoProbes]

LogThreadsIdle ==
    /\ handle = ClosedHandle
    /\ once = "incomplete"
    /\ inits = 0
    /\ restarts = 0
    /\ calls = 0
    /\ lpc = [t \in LogThreads |-> "idle"]
    /\ idx = [t \in LogThreads |-> 0]
    /\ cur = [t \in LogThreads |-> NoLine]
    /\ seen = [t \in LogThreads |-> NoMeta]
    /\ prior = [t \in LogThreads |-> <<>>]
    /\ renames = [t \in LogThreads |-> 0]
    /\ faulted = [t \in LogThreads |-> FALSE]
    /\ faults = 0
    /\ appended = [t \in LogThreads |-> FALSE]
    /\ returned = [t \in LogThreads |-> "none"]
    /\ lastReturned = 0
    /\ lost = {}

LogIdle ==
    /\ dir = [i \in Slots |-> NoFile]
    /\ LogThreadsIdle

\* The directory as earlier processes can have left it: no generation yet or
\* all of them, and possibly a base file.
LogInit ==
    /\ \E k \in {0, MAX_GENERATIONS} :
       \E base \in {NoFile} \cup
                   {OldFile(0, len) : len \in {MAX_LOG_SIZE_BYTES,
                                                MAX_LOG_SIZE_BYTES + 1}} :
          dir = [i \in Slots |->
                   IF i = 0 THEN base
                   ELSE IF i <= k THEN OldFile(i, 1) ELSE NoFile]
    /\ LogThreadsIdle


Init ==
    /\ LogIdle
    /\ LevelIdle
    /\ SenderIdle
    /\ settings \in [readable : BOOLEAN, site_id : {"S1"},
                     api_base : {None, "https://x"},
                     device_id : {None}, guid : {None}]
    /\ launches = 0
    /\ running = FALSE
    /\ spawned = {}
    /\ pc = [t \in Tasks |-> "idle"]
    /\ hostname = [t \in Tasks |-> None]
    /\ request = [t \in Tasks |-> NoRequest]
    /\ response = [t \in Tasks |-> NoResponse]
    /\ result = [t \in Tasks |-> NoData]
    /\ outcome = [t \in Tasks |-> "none"]
    /\ console = [t \in Tasks |-> <<>>]
    /\ httpCalls = 0
    /\ updateCalls = [t \in Tasks |-> 0]
    /\ startSettings = settings
    /\ persistFailed = [t \in Tasks |-> FALSE]
    /\ prevPersistFailed = FALSE
    /\ accepted = NoData
    /\ probes = [t \in Tasks |-> NoProbes]

Step(t) ==
    \/ Check(t)
    \/ Complete(t)
    \/ Endpoint(t)
    \/ Send(t)
    \/ Receive(t)
    \/ Update(t)

\* The program: each process start spawns the orchestrator once.
Next ==
    \/ Launch(1, MaxLaunches)
    \/ Exit
    \/ \E t \in Tasks : Step(t)

Spec == Init /\ [][Next]_vars

\* The orchestrator body invoked twice concurrently within one process.
NextTwice ==
    \/ Launch(NumInvocations, TwiceLaunches)
    \/ Exit
    \/ \E t \in Tasks : Step(t)

SpecTwice == Init /\ [][NextTwice]_vars

\* The steps of a task that need nothing but the executor to run it: all but
\* the arrival of the server's answer.
Local(t) ==
    \/ Check(t)
    \/ Complete(t)
    \/ Endpoint(t)
    \/ Send(t)
    \/ Update(t)

\* The program on an executor that keeps running the tasks that can run.
\* reqwest::Client::new() sets no timeout, so nothing bounds the wait for the
\* answer, and the user may quit at any time.
SpecFair == Init /\ [][Next]_vars /\ \A t \in Tasks : WF_vars(Local(t))

(***************************************************************************)
(* Properties of device registration.                                      *)
(***************************************************************************)
StartRegistered == is_device_registered(startSettings)

\* A 2xx answer whose body carries a device_id and a guid, both non-empty.
ValidResponse(r) ==
    /\ r.kind = "http"
    /\ r.status >= 200 /\ r.status <= 299
    /\ r.body.readable /\ r.body.json
    /\ r.body.device_id \notin {Absent, ""}
    /\ r.body.guid \notin {Absent, ""}

Printed(t, line) == \E i \in DOMAIN console[t] : console[t][i] = line

\* C1, as stated: whenever an unregistered process start was answered with a
\* 2xx response carrying device_id D and guid G, then after the orchestrator
\* task has returned is_registered() is true and the settings hold D and G.
C1_Original ==
    \A t \in Tasks :
        (pc[t] = "done" /\ ~StartRegistered /\ ValidResponse(response[t]))
            => /\ is_device_registered(settings)
               /\ settings.device_id = response[t].body.device_id
               /\ settings.guid = response[t].body.guid

\* C1, amended: whenever an unregistered process start was answered with a
\* 2xx response carrying non-empty device_id D and guid G and the registration
\* operation returned Ok (the settings update was persisted), then after the
\* orchestrator task has returned is_registered() is true and every later
\* settings read returns device_id = D and guid = G.
C1_RegisteredAfterSuccess ==
    /\ \A t \in Tasks :
          (pc[t] = "done" /\ outcome[t] = "Ok" /\ ValidResponse(response[t]))
              => /\ is_device_registered(settings)
                 /\ settings.device_id = response[t].body.device_id
                 /\ settings.guid = response[t].body.guid
    /\ (accepted.device_id \notin {None, ""} /\ accepted.guid \notin {None, ""})
          => /\ is_device_registered(settings)
             /\ settings.device_id = accepted.device_id
             /\ settings.guid = accepted.guid

C1_Witness ==
    /\ pc[1] = "done" /\ outcome[1] = "Ok"
    /\ ValidResponse(response[1])
    /\ response[1].body.device_id = "D2"
    /\ settings.device_id = "D2" /\ settings.guid = "G1"

\* C2: a process that starts with a device_id in the settings (is_registered()
\* true) sends no registration request, leaves the settings unchanged and
\* reports "Device already registered".
C2_RegisteredStartSkips ==
    StartRegistered =>
        /\ httpCalls = 0
        /\ settings = startSettings
        /\ \A t \in Tasks :
              /\ request[t] = NoRequest
              /\ pc[t] = "done" => console[t] = <<"Device already registered">>

C2_Witness ==
    /\ StartRegistered
    /\ pc[1] = "done"
    /\ console[1] = <<"Device already registered">>

\* C3: is_registered() is false on a fresh install; over any sequence of
\* launches and server outcomes it never goes from true back to false (so it
\* turns true at most once), and a device_id that is set is never cleared.
C3_MonotonicIdentity ==
    /\ ~is_device_registered(settings)
    /\ [][/\ is_device_registered(settings) => is_device_registered(settings')
          /\ settings.device_id # None => settings'.device_id # None]_vars

C3_Witness ==
    /\ launches >= 2
    /\ ~StartRegistered
    /\ is_device_registered(settings)
    /\ pc[1] = "done"

\* C4: with the orchestrator invoked twice concurrently in one process, at
\* most one registration request is in flight at any time.
C4_OneRequestInFlight ==
    Cardinality({t \in Tasks : pc[t] = "await"}) <= 1

\* The rendering the amended C5 expects of a status.
C5_StatusText(status) ==
    CASE status = 300 -> "300 Multiple Choices"
      [] status = 500 -> "500 Internal Server Error"
      [] OTHER -> "?"

C5_Rejected(t) ==
    /\ pc[t] = "done"
    /\ response[t].kind = "http"
    /\ ~(response[t].status >= 200 /\ response[t].status <= 299)

C5_ErrorText(t) ==
    IF response[t].body.readable THEN response[t].body.raw ELSE "Unknown error"

\* C5, as stated: a non-2xx answer (status 500, body "boom") is reported as
\* `Registration failed (500): boom` (numeric status, then the raw body),
\* update_from_registration is not called and is_registered() stays false.
C5_Original ==
    \A t \in Tasks :
        C5_Rejected(t) =>
            /\ Printed(t, "Failed to register device: Registration failed ("
                            \o ToString(response[t].status) \o "): "
                            \o C5_ErrorText(t))
            /\ updateCalls[t] = 0
            /\ ~is_device_registered(settings)

\* C5, amended: a non-2xx answer (status 500, body "boom") is reported as
\* `Registration failed (500 Internal Server Error): boom` (the status as its
\* numeric code followed by its canonical reason phrase, then the raw body),
\* update_from_registration is not called and is_registered() stays false.
C5_RejectionReported ==
    \A t \in Tasks :
        C5_Rejected(t) =>
            /\ Printed(t, "Failed to register device: Registration failed ("
                            \o C5_StatusText(response[t].status) \o "): "
                            \o C5_ErrorText(t))
            /\ updateCalls[t] = 0
            /\ ~is_device_registered(settings)

C5_Witness ==
    /\ pc[1] = "done"
    /\ response[1].kind = "http"
    /\ response[1].status = 500
    /\ response[1].body = TextBody("boom")
    /\ Printed(1, "Failed to register device: Registration failed (500 Internal Server Error): boom")

\* C6: an orchestrator run sends at most one registration request; after a
\* failure the task has ended, having reported the failure followed by "Will
\* retry on next launch", and nothing more is sent until the next launch.
C6_NoRetryInProcess ==
    /\ httpCalls <= 1
    /\ \A t \in Tasks :
          outcome[t] = "Err" =>
              /\ pc[t] = "done"
              /\ Len(console[t]) = 3
              /\ console[t][3] = "Will retry on next launch"
              /\ \E e \in {"ConfigMissing", "NetworkFailure",
                           "MalformedResponse", "PersistFailure",
                           "Registration failed (" \o C5_StatusText(response[t].status)
                               \o "): " \o C5_ErrorText(t)} :
                    console[t][2] = "Failed to register device: " \o e

C6_Witness ==
    /\ outcome[1] = "Err"
    /\ httpCalls = 1
    /\ response[1] = NetworkFailure
    /\ ~running

\* C7: when the server answered 2xx with valid identifiers and persisting
\* the settings failed, registration returns an error, the orchestrator
\* reports it, is_registered() stays false, and the next launch registers
\* again.
C7_PersistFailureRetried ==
    /\ \A t \in Tasks :
          persistFailed[t] =>
              /\ outcome[t] = "Err"
              /\ Printed(t, "Failed to register device: PersistFailure")
              /\ Printed(t, "Will retry on next launch")
              /\ ~is_device_registered(settings)
              /\ settings = startSettings
    /\ \A t \in Tasks :
          (prevPersistFailed /\ console[t] # <<>>)
              => console[t][1] = "First launch detected, registering device..."

C7_Witness ==
    /\ prevPersistFailed
    /\ pc[1] = "await"
    /\ httpCalls = 1

\* C8: registration succeeds, and update_from_registration is called, only
\* for a 2xx response whose body parses with data.device_id and data.guid
\* both non-empty.
C8_SuccessNeedsNonEmptyIds ==
    \A t \in Tasks :
        (updateCalls[t] > 0 \/ outcome[t] = "Ok" \/ pc[t] = "update")
            => ValidResponse(response[t])

\* The task took the registration branch and is past the sending of the
\* request, in a process whose settings were readable and named the backend.
PastSend(t) ==
    /\ startSettings.readable /\ startSettings.api_base # None
    /\ \/ pc[t] \in {"await", "update"}
       \/ pc[t] = "done" /\ outcome[t] # "none"

\* C18: whatever the machine-GUID, serial, MAC and hostname probes give, an
\* unregistered launch with readable settings sends the registration request;
\* an absent guid, serial or mac goes out as an absent value and an absent
\* hostname as the literal "unknown".
C18_ProbesNeverBlock ==
    \A t \in Tasks :
        /\ PastSend(t) => request[t] # NoRequest
        /\ request[t] # NoRequest =>
              /\ request[t].guid = probes[t].guid
              /\ request[t].serial = probes[t].serial
              /\ request[t].mac = probes[t].mac
              /\ request[t].hostname =
                    IF hostname[t] = None THEN "unknown" ELSE hostname[t]
              /\ request[t].site_id = startSettings.site_id

\* Every probe failed and the request is out.
C18_Witness ==
    \E t \in Tasks :
        /\ pc[t] = "await"
        /\ httpCalls = 1
        /\ ~is_device_registered(startSettings)
        /\ hostname[t] = None
        /\ probes[t] = NoProbes
        /\ request[t].guid = None /\ request[t].serial = None
        /\ request[t].mac = None /\ request[t].hostname = "unknown"

\* The three ways a run of the orchestrator task ends.
AlreadyRegistered(t) ==
    /\ outcome[t] = "none"
    /\ console[t] = <<"Device already registered">>

RegisteredSuccessfully(t) ==
    /\ outcome[t] = "Ok"
    /\ Len(console[t]) = 4
    /\ console[t][1] = "First launch detected, registering device..."
    /\ console[t][2] = "Device registered successfully"

FailureReported(t) ==
    /\ outcome[t] = "Err"
    /\ Len(console[t]) = 3
    /\ console[t][1] = "First launch detected, registering device..."
    /\ console[t][3] = "Will retry on next launch"

\* A run that has ended has ended in one of the three ways, and the step that
\* ends a run leaves the process running.
EndsInOneOutcome ==
    /\ [](\A t \in Tasks :
            pc[t] = "done" =>
                \/ AlreadyRegistered(t)
                \/ RegisteredSuccessfully(t)
                \/ FailureReported(t))
    /\ [][\A t \in Tasks :
             (pc[t] # "done" /\ pc'[t] = "done") => (running /\ running')]_vars

\* C19 as stated: every run of the orchestrator task terminates, in one of
\* three outcomes; here even a run the process ends first counts as
\* terminated.
C19_Original ==
    /\ EndsInOneOutcome
    /\ \A t \in Tasks :
          (pc[t] = "check") ~> (pc[t] = "done" \/ ~running)

\* C19: a run of the orchestrator task that has ended has ended in one of
\* three outcomes (already registered, registered successfully, failure
\* reported), every error being caught in the task and leaving the process
\* running; a run reaches its end unless the process ends first or the
\* server's answer (or the failure of the exchange) never arrives.
C19_EndsUnlessUnanswered ==
    /\ EndsInOneOutcome
    /\ \A t \in Tasks :
          /\ (pc[t] \in {"check", "complete", "endpoint", "send"})
                 ~> (pc[t] \in {"await", "done"} \/ ~running)
          /\ (pc[t] = "update") ~> (pc[t] = "done" \/ ~running)

\* A run has ended with a persistence failure reported, the process running.
C19_Witness ==
    \E t \in Tasks :
        /\ pc[t] = "done"
        /\ running
        /\ persistFailed[t]
        /\ FailureReported(t)
        /\ console[t][2] = "Failed to register device: PersistFailure"

(***************************************************************************)
(* Properties of the logger.                                               *)
(***************************************************************************)
\* C9: a log call rotates before its write exactly when the size it found
\* for the base file is strictly greater than 10 * 1024 * 1024 bytes; a file
\* of exactly that size, or a missing file, is not rotated.
C9_RotatesIffLarger ==
    \A t \in LogThreads :
        /\ (lpc[t] = "write" \/ returned[t] = "Ok") =>
              IF seen[t].found /\ seen[t].len > 10 * 1024 * 1024
                 THEN renames[t] = MAX_GENERATIONS
                 ELSE renames[t] = 0
        /\ lpc[t] \in {"shift", "movebase"} =>
              (seen[t].found /\ seen[t].len >= 10 * 1024 * 1024 + 1)

C9_Witness ==
    \E t, u \in LogThreads :
        /\ returned[t] = "Ok" /\ returned[u] = "Ok"
        /\ seen[t] = [found |-> TRUE, len |-> 10 * 1024 * 1024]
        /\ renames[t] = 0
        /\ seen[u] = [found |-> TRUE, len |-> 10 * 1024 * 1024 + 1]
        /\ renames[u] = MAX_GENERATIONS

\* The base file the call found had been written to by this process.
GrewHere(t) ==
    /\ prior[t] # <<>>
    /\ prior[t][Len(prior[t])].n > 0
    /\ prior[t][Len(prior[t])].proc = restarts

\* No call of another thread overlapped the call of t.
Alone(t) ==
    \A u \in LogThreads \ {t} :
        /\ lpc[u] = "idle"
        /\ cur[u] = NoLine \/ \E i \in DOMAIN prior[t] : prior[t][i] = cur[u]

\* C10: once the base file has grown past 10 MiB through earlier log calls
\* of the process, the next log call leaves runtime_<V>.log.1 holding exactly
\* the prior content and a fresh runtime_<V>.log holding only the new line.
C10_NewLineInFreshBase ==
    \A t \in LogThreads :
        (/\ lastReturned = t
         /\ renames[t] = MAX_GENERATIONS
         /\ ~faulted[t] /\ appended[t]
         /\ GrewHere(t) /\ Alone(t))
            => /\ dir[1] = [exists |-> TRUE, lines |-> prior[t]]
               /\ dir[0] = [exists |-> TRUE, lines |-> <<cur[t]>>]

\* The log files of the version that are on disk.
LogFiles == {i \in Slots : dir[i].exists}

\* The step is the first rename, .4 to .5, of a rotation of thread t.
FirstShift(t) ==
    /\ lpc[t] = "shift"
    /\ idx[t] = MAX_GENERATIONS - 1
    /\ renames[t] = 0
    /\ renames'[t] = 1

\* The step leaves the file that was runtime_<V>.log.5 on disk no more.
DiscardsOldFifth ==
    /\ dir[MAX_GENERATIONS] \in lost'
    /\ \A i \in Slots : dir'[i] # dir[MAX_GENERATIONS]

\* C11 as stated: at most 6 log files exist, none numbered above 5, and a
\* rotation that finds .5 present discards the old .5.
C11_Original ==
    /\ [](/\ Cardinality(LogFiles) <= 6
          /\ \A i \in LogFiles : i <= 5)
    /\ [][\A t \in LogThreads :
             (FirstShift(t) /\ dir[MAX_GENERATIONS].exists)
                => DiscardsOldFifth]_vars

\* C11: at most 6 log files exist (the base file and .1 to .5), no generation
\* numbered above 5 is ever created, and a rotation that finds .5 present
\* discards the old .5 when .4 exists and its rename onto .5 does not fail:
\* .5 then holds what .4 held.
C11_AtMostSixFiles ==
    /\ [](/\ Cardinality(LogFiles) <= 6
          /\ \A i \in LogFiles : i <= 5)
    /\ [][\A t \in LogThreads :
             (/\ FirstShift(t)
              /\ dir[MAX_GENERATIONS].exists
              /\ dir[MAX_GENERATIONS - 1].exists
              /\ faults' = faults)
                => /\ DiscardsOldFifth
                   /\ dir'[MAX_GENERATIONS] = dir[MAX_GENERATIONS - 1]]_vars

C11_Witness ==
    \E t \in LogThreads :
        /\ lpc[t] = "write"
        /\ renames[t] = MAX_GENERATIONS
        /\ OldFile(MAX_GENERATIONS, 1) \in lost
        /\ dir[MAX_GENERATIONS] = OldFile(MAX_GENERATIONS - 1, 1)
        /\ Cardinality(LogFiles) = MAX_GENERATIONS

\* The generations earlier processes left are neither on disk nor replaced:
\* the directory held at most a base file, grown by the logging so far.
StartedWithoutGenerations ==
    \A g \in 1..MAX_GENERATIONS :
        /\ OldFile(g, 1) \notin lost
        /\ \A i \in Slots : dir[i] # OldFile(g, 1)

\* C12: after any sequence of log calls, concurrent ones included, on a
\* directory that started empty, once the calls have returned and with no
\* rename having failed, the generations are contiguous: whenever .k exists
\* for a k in 2..5, .(k-1) exists too.
C12_ContiguousGenerations ==
    (/\ \A t \in LogThreads : lpc[t] = "idle"
     /\ faults = 0
     /\ StartedWithoutGenerations)
        => \A k \in 2..MAX_GENERATIONS : dir[k].exists => dir[k - 1].exists

\* The call of t has just returned and its write, through a file that is open
\* and still in the directory, did not put the line there: the write failed.
AppendFailed(t) ==
    /\ lastReturned = t
    /\ ~appended[t]
    /\ handle.open /\ handle.linked

\* C13: when the final append of a log line fails, log_message returns an
\* error and not Ok.
C13_FailedAppendReturnsErr ==
    \A t \in LogThreads : AppendFailed(t) => returned[t] = "Err"

\* The lines of the log files read from the oldest generation to the base
\* file.
RECURSIVE LinesFrom(_)
LinesFrom(i) == IF i = 0 THEN dir[0].lines ELSE dir[i].lines \o LinesFrom(i - 1)

Journal == LinesFrom(MAX_GENERATIONS)

\* Positions of the journal that hold the line.
Occurrences(line) == {i \in DOMAIN Journal : Journal[i] = line}

RotatedAlone(t) ==
    /\ lpc[t] = "write"
    /\ needs_rotation(seen[t])
    /\ faults = 0
    /\ Alone(t)

\* The file such a rotation found as generation i: what earlier processes
\* left there, no rename having touched the directory before.
Found(i) == IF StartedWithoutGenerations THEN NoFile ELSE OldFile(i, 1)

C17_InitExactlyOnce ==
    /\ inits <= 1
    /\ \A t \in LogThreads :
          lpc[t] \in {"check", "shift", "movebase", "write"} =>
              /\ once = "complete"
              /\ inits = 1
              /\ handle.open

\* Both threads are inside log_message past init_logger(), in a process whose
\* body has run once.
C17_Witness ==
    /\ inits = 1
    /\ once = "complete"
    /\ \A t \in LogThreads : lpc[t] \in {"check", "shift", "movebase", "write"}

(***************************************************************************)
(* Properties of the level conversion.                                     *)
(***************************************************************************)
\* C15: turning a level string into a level is total and ignores case: any
\* casing of "warn" gives WARN, any casing of "error" gives ERROR, and every
\* other string, unknown and empty ones too, gives INFO.
C15_LevelIgnoresCase ==
    levelText # "none" =>
        levelText =
            IF /\ Len(levelArg) = 4
               /\ levelArg[1] \in {"w", "W"} /\ levelArg[2] \in {"a", "A"}
               /\ levelArg[3] \in {"r", "R"} /\ levelArg[4] \in {"n", "N"}
               THEN "WARN"
            ELSE IF /\ Len(levelArg) = 5
                    /\ levelArg[1] \in {"e", "E"} /\ levelArg[2] \in {"r", "R"}
                    /\ levelArg[3] \in {"r", "R"} /\ levelArg[4] \in {"o", "O"}
                    /\ levelArg[5] \in {"r", "R"}
               THEN "ERROR"
            ELSE "INFO"

C15_Witness ==
    /\ levelArg = <<"e", "R", "r", "O", "r">>
    /\ level = "Error"
    /\ levelText = "ERROR"

(***************************************************************************)
(* Properties of the test-ticket sender.                                   *)
(***************************************************************************)
NotRegisteredLine ==
    "Failed to send test ticket: Device not registered, skipping test ticket"

\* C20: the sender never issues a ticket-creation request while the settings
\* have no device_id: send_test_ticket then returns an error before it
\* resolves the endpoint or sends anything, and the loop logs the failure and
\* goes on to its next interval.
C20_NoTicketWithoutDeviceId ==
    /\ [](\A i \in DOMAIN posts : posts[i].device_id # None)
    /\ [][/\ Len(posts') > Len(posts) => settings.device_id # None
          /\ (/\ tpc = "settings" /\ tpc' # "settings"
              /\ settings.readable /\ settings.device_id = None)
                => /\ endpointCalls' = endpointCalls
                   /\ posts' = posts
                   /\ ticketLog' = Append(ticketLog, NotRegisteredLine)
                   /\ tpc' = "loop"]_vars

\* Two rounds found no device_id: each logged the failure, the second came
\* after the first, and nothing was resolved or sent.
C20_Witness ==
    /\ rounds = 2
    /\ tpc = "loop"
    /\ settings.readable /\ settings.device_id = None
    /\ endpointCalls = 0
    /\ posts = <<>>
    /\ Len(ticketLog) = 7
    /\ ticketLog[4] = NotRegisteredLine
    /\ ticketLog[5] = "Next test ticket will be sent"
    /\ ticketLog[7] = NotRegisteredLine

\* The task runs one of its two loads of the flag.
FlagCheck == tpc \in {"loop", "sleep"} /\ tpc' # tpc

\* A send starts: the task logs "Sending test ticket..." and enters
\* send_test_ticket.
SendStarts == tpc = "sleep" /\ tpc' = "settings"

\* A flag check that finds the flag false leaves the loop, logs that the task
\* stopped and starts nothing; the stopped task does nothing more.
StopsAtFlagCheck ==
    /\ (FlagCheck /\ ~senderFlag)
          => /\ tpc' = "stopped"
             /\ ticketLog' = Append(ticketLog, StoppedLine)
             /\ posts' = posts
             /\ endpointCalls' = endpointCalls
    /\ SendStarts => senderFlag
    /\ tpc = "stopped"
          => /\ tpc' = "stopped"
             /\ ticketLog' = ticketLog
             /\ posts' = posts
             /\ endpointCalls' = endpointCalls

\* C21 as stated: once the running flag is false, the sender starts no new
\* send after its next flag check, leaves the loop, logs that the background
\* task stopped and terminates, whatever it was doing when the flag was
\* cleared.
C21_Original ==
    /\ [][StopsAtFlagCheck]_vars
    /\ (~senderFlag ~> tpc = "stopped")

\* C21: once the running flag is false, every flag check of the sender leaves
\* the loop, logs that the background task stopped and ends the task, and no
\* send starts from it (at the check after the sleep the pending ticket is
\* not sent); the task gets to that check and stops unless it is waiting for
\* the answer to a ticket it has already posted, a wait nothing bounds.
C21_StopsAtNextFlagCheck ==
    /\ [](tpc = "stopped"
            => /\ ~senderFlag
               /\ ticketLog[Len(ticketLog)] = StoppedLine)
    /\ [][StopsAtFlagCheck]_vars
    /\ (~senderFlag ~> (tpc = "stopped" \/ tpc = "await"))

\* The first round posted a ticket; the flag was cleared during the second
\* sleep, and the check after it stopped the task with the second ticket
\* unsent.
C21_Witness ==
    /\ tpc = "stopped"
    /\ ~senderFlag
    /\ rounds = 2
    /\ Len(posts) = 1
    /\ Len(ticketLog) >= 2
    /\ ticketLog[Len(ticketLog)] = StoppedLine
    /\ ticketLog[Len(ticketLog) - 1] = "Next test ticket will be sent"

\* The logger, called from the threads of one process after another.
LogStep(t) ==
    \/ LogCall(t)
    \/ InitBody(t)
    \/ CheckSize(t)
    \/ Shift(t)
    \/ MoveBase(t)
    \/ WriteLine(t)

NextLog ==
    \/ \E t \in LogThreads : LogStep(t)
    \/ Restart

InitLog == RegIdle /\ LogInit /\ LevelIdle /\ SenderIdle

SpecLog == InitLog /\ [][NextLog]_vars

\* log_to_file called with a level string.
NextLevel ==
    \/ ConvertLevel
    \/ FormatLevel

InitLevel ==
    /\ RegIdle
    /\ LogIdle
    /\ SenderIdle
    /\ levelArg \in LevelStrings
    /\ level = "none"
    /\ levelText = "none"

SpecLevel == InitLevel /\ [][NextLevel]_vars

\* The sender beside the startup orchestrator of a process that has just
\* started.
NextTicket ==
    \/ \E t \in Tasks : Step(t)
    \/ SenderStart
    \/ FirstSleep
    \/ LoopCheck
    \/ WakeUp
    \/ GetSettings
    \/ ResolveEndpoint
    \/ Post
    \/ TicketAnswer
    \/ StopSender

InitTicket ==
    /\ LogIdle
    /\ LevelIdle
    /\ SenderIdle
    /\ \E ids \in {<<None, None>>, <<"D1", "G1">>, <<"", "G1">>} :
          settings \in [readable : BOOLEAN, site_id : {"S1"},
                         api_base : {None, "https://x"},
                         device_id : {ids[1]}, guid : {ids[2]}]
    /\ launches = 1
    /\ running = TRUE
    /\ spawned = {1}
    /\ pc = [t \in Tasks |-> IF t = 1 THEN "check" ELSE "idle"]
    /\ hostname = [t \in Tasks |-> None]
    /\ request = [t \in Tasks |-> NoRequest]
    /\ response = [t \in Tasks |-> NoResponse]
    /\ result = [t \in Tasks |-> NoData]
    /\ outcome = [t \in Tasks |-> "none"]
    /\ console = [t \in Tasks |-> <<>>]
    /\ httpCalls = 0
    /\ updateCalls = [t \in Tasks |-> 0]
    /\ startSettings = settings
    /\ persistFailed = [t \in Tasks |-> FALSE]
    /\ prevPersistFailed = FALSE
    /\ accepted = NoData
    /\ probes = [t \in Tasks |-> NoProbes]

SpecTicket == InitTicket /\ [][NextTicket]_vars

\* The steps the sender task takes when the executor polls it: its timers
\* expire and its own code runs.  The answer to a request it has sent is not
\* among them.
SenderLocal ==
    \/ SenderStart
    \/ FirstSleep
    \/ LoopCheck
    \/ WakeUp
    \/ GetSettings
    \/ ResolveEndpoint
    \/ Post

\* The sender and the owner of its flag, the settings being what the process
\* found or wrote before.
NextSender ==
    \/ SenderStart
    \/ FirstSleep
    \/ LoopCheck
    \/ WakeUp
    \/ GetSettings
    \/ ResolveEndpoint
    \/ Post
    \/ TicketAnswer
    \/ StopSender

\* The executor goes on polling the sender task while the process lives.
SpecSenderFair == InitTicket /\ [][NextSender]_vars /\ WF_vars(SenderLocal)

====
